---- MODULE Spec2Model ----
(***************************************************************************)
(* The useChat hook (src/unnamed/part_000): the streaming chat client.     *)
(*                                                                         *)
(* One action is one turn of the JavaScript event loop: a call of one of   *)
(* the hook's callbacks, or the continuation of one sendMessage call after *)
(* an await (the fetch response, one reader.read() result, a rejection).   *)
(* React has re-rendered between two turns, so the closures a callback     *)
(* reads (isLoading, currentSessionId, chatSessions) are the committed     *)
(* state, while a sendMessage call that is in flight keeps the values its  *)
(* closure captured when it was called.                                    *)
(*                                                                         *)
(* Text is a sequence of one-character strings.  A JSON payload is written *)
(* in an abbreviated alphabet: "{", one type letter, the characters of the *)
(* content string, "}".                                                    *)
(***************************************************************************)
EXTENDS Naturals, Sequences, FiniteSets, TLC

VARIABLES
    messages,            \* useState<Message[]>            part_000:32
    isLoading,           \* useState(false)                part_000:33
    currentSessionId,    \* useState<string | null>(null)  part_000:34
    chatSessions,        \* useState<Record<..>>({})       part_000:35
    abortControllerRef,  \* useRef<AbortController | null> part_000:36
    localStorage,        \* the value stored under the key 'chatSessions'
    reqs,                \* the sendMessage calls that are alive
    now,                 \* the last value read from the clock
    route                \* the proxy's POST handler     route.ts:3-83

\* The variables of the hook.
hook == <<messages, isLoading, currentSessionId, chatSessions,
          abortControllerRef, localStorage, reqs, now>>

vars == <<hook, route>>

-----------------------------------------------------------------------------
(* Bounds of the model. *)

\* The number of sendMessage calls that may be alive at once: a call is
\* alive from the moment it passes the guard until it returns.
MaxInFlight == 2

\* The number of turns (a user message and its assistant message) the
\* transcript may hold: sendMessage is not called on a longer one.
MaxTurns == 2

\* The largest clock value; the clock stops advancing there.
MaxClock == 0

-----------------------------------------------------------------------------
(* Text. *)

LF == "\n"

\* 'data: '
Marker == <<"d", "a", "t", "a", ":", " ">>

\* The length of the marker, the argument of line.slice(6).
MarkerLen == 6

\* White space as String.prototype.trim sees it.
IsSpace(c) == c \in {" ", LF, "\t", "\r"}

\* The positions of s that hold no white space.
Solid(s) == {i \in 1..Len(s) : ~IsSpace(s[i])}

TrimStart(s) ==
    IF Solid(s) = {} THEN <<>>
    ELSE SubSeq(s, CHOOSE i \in Solid(s) : \A j \in Solid(s) : i <= j, Len(s))

TrimEnd(s) ==
    IF Solid(s) = {} THEN <<>>
    ELSE SubSeq(s, 1, CHOOSE i \in Solid(s) : \A j \in Solid(s) : j <= i)

\* String.prototype.trim
Trim(s) == TrimEnd(TrimStart(s))

\* String.prototype.startsWith
StartsWith(s, p) == Len(s) >= Len(p) /\ SubSeq(s, 1, Len(p)) = p

\* String.prototype.slice(n)
Slice(s, n) == SubSeq(s, n + 1, Len(s))

\* String.prototype.substring(0, n)
Substring0(s, n) == SubSeq(s, 1, IF Len(s) < n THEN Len(s) ELSE n)

\* A split at blank lines only ('\n\n'): lines that no blank line separates
\* stay in one piece.
SplitAtBlankLines(text) ==
    LET feeds == {i \in 1..(Len(text) - 1) :
                     text[i] = LF /\ text[i + 1] = LF}
        n == Cardinality(feeds)
        At(k) == IF k = 0 THEN 0 - 1
                 ELSE IF k = n + 1 THEN Len(text) + 1
                 ELSE CHOOSE i \in feeds :
                          Cardinality({j \in feeds : j <= i}) = k
    IN  [k \in 1..(n + 1) |-> SubSeq(text, At(k - 1) + 2, At(k) - 1)]

\* chunk.split('\n'): k line feeds give k + 1 pieces, the k-th one being
\* the text between line feed k - 1 and line feed k, the last one whatever
\* follows the last line feed (possibly empty).
Split(text) ==
    LET feeds == {i \in 1..Len(text) : text[i] = LF}
        n == Cardinality(feeds)
        At(k) == IF k = 0 THEN 0
                 ELSE IF k = n + 1 THEN Len(text) + 1
                 ELSE CHOOSE i \in feeds :
                          Cardinality({j \in feeds : j <= i}) = k
    IN  [k \in 1..(n + 1) |-> SubSeq(text, At(k - 1) + 1, At(k) - 1)]

\* The bytes of consecutive pieces of a body, as one Uint8Array.
RECURSIVE Concat(_)
Concat(ss) ==
    IF ss = <<>> THEN <<>>
    ELSE IF Len(ss) = 1 THEN ss[1]
    ELSE LET h == Len(ss) \div 2 IN
         Concat(SubSeq(ss, 1, h)) \o Concat(SubSeq(ss, h + 1, Len(ss)))

-----------------------------------------------------------------------------
(* TextDecoder, stream mode.  The byte alphabet is the one-byte characters *)
(* and one two-byte character, LeadByte ContByte, decoded to EAcute.       *)

LeadByte == "0xC3"
ContByte == "0xA9"
EAcute == "U+00E9"
Replacement == "U+FFFD"
NoByte == "none"

\* One byte through the decoder: a lead byte is held back, a continuation
\* byte completes a held lead byte, and a byte that cannot continue or
\* start a character becomes the replacement character.
DecodeByte(b, pending) ==
    LET alone == IF b = LeadByte THEN [text |-> <<>>, pending |-> LeadByte]
                 ELSE IF b = ContByte
                      THEN [text |-> <<Replacement>>, pending |-> NoByte]
                      ELSE [text |-> <<b>>, pending |-> NoByte]
    IN  IF pending = NoByte THEN alone
        ELSE IF b = ContByte THEN [text |-> <<EAcute>>, pending |-> NoByte]
        ELSE [alone EXCEPT !.text = <<Replacement>> \o @]

\* decoder.decode(value, { stream: true }): the text of the bytes, an
\* incomplete character at the end being kept for the next call.  What the
\* decoder holds when it reaches a byte is the lead byte just before it, if
\* any (for the first byte, what the previous call kept).
Decode(bytes, pending) ==
    LET Held(i) == IF i = 1 THEN pending
                   ELSE IF bytes[i - 1] = LeadByte THEN LeadByte ELSE NoByte
    IN  [text |-> Concat([i \in 1..Len(bytes) |->
                              DecodeByte(bytes[i], Held(i)).text]),
         pending |-> Held(Len(bytes) + 1)]

-----------------------------------------------------------------------------
(* JSON.parse on the abbreviated payload alphabet. *)

TypeOf ==
    [S |-> "status", R |-> "reasoning_step", T |-> "tool_call",
     F |-> "final_answer", E |-> "error", D |-> "done"]

TypeLetters == {"S", "R", "T", "F", "E", "D"}

\* The characters a content string is made of.  The message of an error
\* of the proxy is one symbol: a run of characters that need no escape.
ContentChars ==
    {"x", "y", " ", EAcute,
     "Backend error: 500", "No response body", "fetch failed", "terminated"}

SyntaxError == [type |-> "SyntaxError", content |-> <<>>]

\* JSON.parse(dataStr): the event, or SyntaxError when dataStr is no
\* well-formed payload.
JsonParse(s) ==
    IF /\ Len(s) >= 3
       /\ s[1] = "{"
       /\ s[Len(s)] = "}"
       /\ s[2] \in TypeLetters
       /\ \A i \in 3..(Len(s) - 1) : s[i] \in ContentChars
    THEN [type |-> TypeOf[s[2]], content |-> SubSeq(s, 3, Len(s) - 1)]
    ELSE SyntaxError

-----------------------------------------------------------------------------
(* Messages, the transcript and the session store. *)

\* currentSessionId === null
Null == "null"

\* The session ids a caller may name.
SessionIds == {"s1", "s2"}

\* The argument of substring(0, 50) that makes a session title.
TitleLen == 50

\* The clock values a read may return after a read that returned t.
Ticks(t) == IF t < MaxClock THEN {t, t + 1} ELSE {t}

\* The record addMessage builds.  id and timestamp come from the same clock
\* reading t; turn is the number of the sendMessage call that created the
\* message (it names the message in the properties and is not read by the
\* program).
NewMessage(role, content, t, turn) ==
    [id |-> t, role |-> role, content |-> content, timestamp |-> t,
     turn |-> turn]

\* The updater of setMessages in updateLastMessage.
updateLastMessage(prev, content) ==
    IF Len(prev) > 0 /\ prev[Len(prev)].role = "assistant"
    THEN [prev EXCEPT ![Len(prev)].content = content]
    ELSE prev

\* `session_${id}`
SessionKey(id) == <<"session_", id>>

\* localStorage.getItem('chatSessions') === null
Absent == [present |-> FALSE, value |-> <<>>]

\* JSON.stringify(updated), as stored under 'chatSessions'.
Stringify(map) == [present |-> TRUE, value |-> map]

\* A saveToSession that appends the user message alone.
saveToSessionUserOnly(store, sid, userMessage, assistantMessage, t) ==
    IF sid = Null THEN store
    ELSE LET sessionKey == SessionKey(sid)
             prev == store.chatSessions
             session ==
                 IF sessionKey \in DOMAIN prev
                 THEN prev[sessionKey]
                 ELSE [id |-> sid,
                       title |-> Substring0(userMessage.content, TitleLen),
                       messages |-> <<>>,
                       createdAt |-> t,
                       lastActivity |-> t]
             updatedSession ==
                 [session EXCEPT
                     !.messages = @ \o <<userMessage>>,
                     !.lastActivity = t]
             updated ==
                 [k \in DOMAIN prev \cup {sessionKey} |->
                     IF k = sessionKey THEN updatedSession ELSE prev[k]]
         IN  [chatSessions |-> updated, localStorage |-> Stringify(updated)]

\* A saveToSession that titles a new record with the whole user text.
saveToSessionWholeTitle(store, sid, userMessage, assistantMessage, t) ==
    IF sid = Null THEN store
    ELSE LET sessionKey == SessionKey(sid)
             prev == store.chatSessions
             session ==
                 IF sessionKey \in DOMAIN prev
                 THEN prev[sessionKey]
                 ELSE [id |-> sid,
                       title |-> userMessage.content,
                       messages |-> <<>>,
                       createdAt |-> t,
                       lastActivity |-> t]
             updatedSession ==
                 [session EXCEPT
                     !.messages = @ \o <<userMessage, assistantMessage>>,
                     !.lastActivity = t]
             updated ==
                 [k \in DOMAIN prev \cup {sessionKey} |->
                     IF k = sessionKey THEN updatedSession ELSE prev[k]]
         IN  [chatSessions |-> updated, localStorage |-> Stringify(updated)]

\* saveToSession as called by a sendMessage whose closure captured the
\* session id sid: store is the pair (chatSessions, localStorage), t the
\* clock reading of new Date().
saveToSession(store, sid, userMessage, assistantMessage, t) ==
    IF sid = Null THEN store
    ELSE LET sessionKey == SessionKey(sid)
             prev == store.chatSessions
             session ==
                 IF sessionKey \in DOMAIN prev
                 THEN prev[sessionKey]
                 ELSE [id |-> sid,
                       title |-> Substring0(userMessage.content, TitleLen),
                       messages |-> <<>>,
                       createdAt |-> t,
                       lastActivity |-> t]
             updatedSession ==
                 [session EXCEPT
                     !.messages = @ \o <<userMessage, assistantMessage>>,
                     !.lastActivity = t]
             updated ==
                 [k \in DOMAIN prev \cup {sessionKey} |->
                     IF k = sessionKey THEN updatedSession ELSE prev[k]]
         IN  [chatSessions |-> updated, localStorage |-> Stringify(updated)]

-----------------------------------------------------------------------------
(* The body of the read loop.  L is what one pass over a chunk reads and   *)
(* writes: the transcript, the store, the call's accumulatedContent (acc), *)
(* the events handed to onStreamEvent (log), and whether the call has      *)
(* returned.  rq is the call's record, t the clock reading of a commit.    *)
(* writes counts the calls of updateLastMessage and saveToSession the call *)
(* has made, and seen[i] is that count at the moment log[i] was handed to  *)
(* onStreamEvent (neither is read by the program).                         *)

\* `Error: ${text}`
ErrorText(text) == <<"Error: ">> \o text

\* The switch on data.type with a done case that commits unconditionally:
\* no check of accumulatedContent, and under a session id of its own when
\* the call has none.
ProcessEventCommitsAtDone(L, data, rq, t) ==
    CASE data.type = "final_answer" ->
            IF data.content # <<>>
            THEN [L EXCEPT !.acc = data.content,
                           !.messages = updateLastMessage(@, data.content),
                           !.writes = @ + 1]
            ELSE L
      [] data.type = "error" ->
            [L EXCEPT !.messages =
                          updateLastMessage(@, ErrorText(data.content)),
                      !.writes = @ + 1]
      [] data.type = "done" ->
            [L EXCEPT !.store =
                          saveToSession(L.store,
                              IF rq.sid = Null THEN "s1" ELSE rq.sid,
                              rq.userMessage,
                              [rq.assistantMessage EXCEPT !.content = L.acc],
                              t),
                      !.writes = @ + 1,
                      !.returned = TRUE]
      [] OTHER -> L

\* The switch on data.type with a done case that leaves the switch (break)
\* instead of the function (return).
ProcessEventDoneBreaks(L, data, rq, t) ==
    CASE data.type = "final_answer" ->
            IF data.content # <<>>
            THEN [L EXCEPT !.acc = data.content,
                           !.messages = updateLastMessage(@, data.content),
                           !.writes = @ + 1]
            ELSE L
      [] data.type = "error" ->
            [L EXCEPT !.messages =
                          updateLastMessage(@, ErrorText(data.content)),
                      !.writes = @ + 1]
      [] data.type = "done" ->
            LET saved ==
                    IF L.acc # <<>>
                    THEN saveToSession(L.store, rq.sid, rq.userMessage,
                             [rq.assistantMessage EXCEPT !.content = L.acc],
                             t)
                    ELSE L.store
            IN  [L EXCEPT !.store = saved,
                          !.writes = IF L.acc # <<>> THEN @ + 1 ELSE @]
      [] OTHER -> L

\* A switch on data.type with a case that shows the text of a status event
\* in the open message.
ProcessEventShowsStatus(L, data, rq, t) ==
    CASE data.type = "final_answer" ->
            IF data.content # <<>>
            THEN [L EXCEPT !.acc = data.content,
                           !.messages = updateLastMessage(@, data.content),
                           !.writes = @ + 1]
            ELSE L
      [] data.type = "error" ->
            [L EXCEPT !.messages =
                          updateLastMessage(@, ErrorText(data.content)),
                      !.writes = @ + 1]
      [] data.type = "done" ->
            LET saved ==
                    IF L.acc # <<>>
                    THEN saveToSession(L.store, rq.sid, rq.userMessage,
                             [rq.assistantMessage EXCEPT !.content = L.acc],
                             t)
                    ELSE L.store
            IN  [L EXCEPT !.store = saved,
                          !.writes = IF L.acc # <<>> THEN @ + 1 ELSE @,
                          !.returned = TRUE]
      [] data.type = "status" ->
            [L EXCEPT !.messages = updateLastMessage(@, data.content),
                      !.writes = @ + 1]
      [] OTHER -> L

\* A switch on data.type whose error case ends the call.
ProcessEventErrorEnds(L, data, rq, t) ==
    CASE data.type = "final_answer" ->
            IF data.content # <<>>
            THEN [L EXCEPT !.acc = data.content,
                           !.messages = updateLastMessage(@, data.content),
                           !.writes = @ + 1]
            ELSE L
      [] data.type = "error" ->
            [L EXCEPT !.messages =
                          updateLastMessage(@, ErrorText(data.content)),
                      !.writes = @ + 1,
                      !.returned = TRUE]
      [] data.type = "done" ->
            LET saved ==
                    IF L.acc # <<>>
                    THEN saveToSession(L.store, rq.sid, rq.userMessage,
                             [rq.assistantMessage EXCEPT !.content = L.acc],
                             t)
                    ELSE L.store
            IN  [L EXCEPT !.store = saved,
                          !.writes = IF L.acc # <<>> THEN @ + 1 ELSE @,
                          !.returned = TRUE]
      [] OTHER -> L

\* A switch on data.type whose error case keeps the rendering of the error
\* as the accumulated content.
ProcessEventKeepsErrorText(L, data, rq, t) ==
    CASE data.type = "final_answer" ->
            IF data.content # <<>>
            THEN [L EXCEPT !.acc = data.content,
                           !.messages = updateLastMessage(@, data.content),
                           !.writes = @ + 1]
            ELSE L
      [] data.type = "error" ->
            [L EXCEPT !.acc = ErrorText(data.content),
                      !.messages =
                          updateLastMessage(@, ErrorText(data.content)),
                      !.writes = @ + 1]
      [] data.type = "done" ->
            LET saved ==
                    IF L.acc # <<>>
                    THEN saveToSession(L.store, rq.sid, rq.userMessage,
                             [rq.assistantMessage EXCEPT !.content = L.acc],
                             t)
                    ELSE L.store
            IN  [L EXCEPT !.store = saved,
                          !.writes = IF L.acc # <<>> THEN @ + 1 ELSE @,
                          !.returned = TRUE]
      [] OTHER -> L

\* The switch on data.type.
ProcessEvent(L, data, rq, t) ==
    CASE data.type = "final_answer" ->
            IF data.content # <<>>
            THEN [L EXCEPT !.acc = data.content,
                           !.messages = updateLastMessage(@, data.content),
                           !.writes = @ + 1]
            ELSE L
      [] data.type = "error" ->
            [L EXCEPT !.messages =
                          updateLastMessage(@, ErrorText(data.content)),
                      !.writes = @ + 1]
      [] data.type = "done" ->
            LET saved ==
                    IF L.acc # <<>>
                    THEN saveToSession(L.store, rq.sid, rq.userMessage,
                             [rq.assistantMessage EXCEPT !.content = L.acc],
                             t)
                    ELSE L.store
            IN  [L EXCEPT !.store = saved,
                          !.writes = IF L.acc # <<>> THEN @ + 1 ELSE @,
                          !.returned = TRUE]
      [] OTHER -> L

\* One iteration of `for (const line of lines)` without the try around the
\* parse: the exception of a malformed payload ends the loop.
ProcessLineParseThrows(L, line, rq, t) ==
    IF Trim(line) = <<>> THEN L
    ELSE IF StartsWith(line, Marker)
         THEN LET dataStr == Trim(Slice(line, MarkerLen)) IN
              IF dataStr = <<>> THEN L
              ELSE LET data == JsonParse(dataStr) IN
                   IF data = SyntaxError THEN [L EXCEPT !.returned = TRUE]
                   ELSE ProcessEvent([L EXCEPT !.log = Append(@, data),
                                               !.seen = Append(@, L.writes)],
                                     data, rq, t)
         ELSE L

\* One iteration of `for (const line of lines)` with the observer called
\* after the switch instead of before it.
ProcessLineProjectsFirst(L, line, rq, t) ==
    IF Trim(line) = <<>> THEN L
    ELSE IF StartsWith(line, Marker)
         THEN LET dataStr == Trim(Slice(line, MarkerLen)) IN
              IF dataStr = <<>> THEN L
              ELSE LET data == JsonParse(dataStr)
                       P == ProcessEvent(L, data, rq, t)
                   IN  IF data = SyntaxError THEN L
                       ELSE [P EXCEPT !.log = Append(@, data),
                                      !.seen = Append(@, P.writes)]
         ELSE L

\* One iteration of `for (const line of lines)` that takes the payload of
\* every line, whatever the line starts with.
ProcessLineAnyPrefix(L, line, rq, t) ==
    IF Trim(line) = <<>> THEN L
    ELSE LET dataStr == Trim(Slice(line, MarkerLen)) IN
         IF dataStr = <<>> THEN L
         ELSE LET data == JsonParse(dataStr) IN
              IF data = SyntaxError THEN L
              ELSE ProcessEvent([L EXCEPT !.log = Append(@, data),
                                          !.seen = Append(@, L.writes)],
                                data, rq, t)

\* One iteration of `for (const line of lines)`.  The observer of the call
\* is the set of event types at which it throws (rq.onStreamEvent); what it
\* throws is caught with the parse errors, after the call and before the
\* switch.
ProcessLine(L, line, rq, t) ==
    IF Trim(line) = <<>> THEN L
    ELSE IF StartsWith(line, Marker)
         THEN LET dataStr == Trim(Slice(line, MarkerLen)) IN
              IF dataStr = <<>> THEN L
              ELSE LET data == JsonParse(dataStr)
                       called == [L EXCEPT !.log = Append(@, data),
                                           !.seen = Append(@, L.writes)]
                   IN  IF data = SyntaxError THEN L
                       ELSE IF data.type \in rq.onStreamEvent THEN called
                       ELSE ProcessEvent(called, data, rq, t)
         ELSE L

RECURSIVE ProcessLines(_, _, _, _)
ProcessLines(L, lines, rq, t) ==
    IF lines = <<>> \/ L.returned THEN L
    ELSE ProcessLines(ProcessLine(L, Head(lines), rq, t), Tail(lines), rq, t)

\* One pass of the while loop over the decoded text of one chunk.
ProcessChunk(L, chunk, rq, t) == ProcessLines(L, Split(chunk), rq, t)

-----------------------------------------------------------------------------
(* The transport: what the backend may answer.  A response body is a       *)
(* sequence of pieces; one reader.read() delivers the next one or more     *)
(* pieces as one chunk, so every piece boundary is a possible chunk        *)
(* boundary.                                                               *)

Payload(letter, content) == <<"{", letter>> \o content \o <<"}">>

\* One line of the wire format, and the same followed by the blank line
\* that separates frames.
Line(payload) == Marker \o payload \o <<LF>>
Frame(payload) == Line(payload) \o <<LF>>

StatusX == Payload("S", <<"x">>)
FinalX == Payload("F", <<"x">>)
FinalY == Payload("F", <<"y">>)
FinalEmpty == Payload("F", <<>>)
ErrorX == Payload("E", <<"x">>)
ReasoningX == Payload("R", <<"x">>)
ToolCallX == Payload("T", <<"x">>)
Done == Payload("D", <<>>)

\* A payload cut short: JSON.parse throws on it.
Truncated == <<"{", "F", "x">>

\* The response bodies of the backend, cut into pieces.
Streams ==
    { <<Frame(StatusX), Frame(FinalX), Frame(Done)>>,
      <<Frame(FinalX), Frame(FinalY)>>,
      <<Frame(ErrorX)>>,
      <<Frame(FinalX), Frame(ErrorX) \o Frame(Done)>>,
      <<Frame(Done)>> }

\* The errors a failed fetch throws into the catch block: a response that
\* is not ok, a response without a body, a rejected fetch.
FetchErrors ==
    { [name |-> "Error", message |-> <<"HTTP error! status: 500">>],
      [name |-> "Error", message |-> <<"No response body">>],
      [name |-> "TypeError", message |-> <<"Failed to fetch">>] }

\* The error of a reader.read() rejected by a broken connection.
ReadError == [name |-> "TypeError", message |-> <<"network error">>]

\* The error of a fetch or a read rejected by an aborted signal.
AbortError == [name |-> "AbortError", message |-> <<"The user aborted a request.">>]

\* The texts a caller may send.
Texts == { <<>>, <<" ">>, <<"H", "i">> }

-----------------------------------------------------------------------------
(* The proxy: POST of route.ts, between the hook and the backend.  route   *)
(* is the activation of start(controller): where it is suspended (pc), the *)
(* rest of the backend's body (upstream), the decoder state (pending), the *)
(* chunks passed to controller.enqueue (enqueued), and, to state           *)
(* properties, the chunks read from the backend (received) and the message *)
(* of the error that reached the catch block (failed).                     *)

\* No error has reached the catch block.
NoFailure == <<>>

\* No request is being served.
Idle ==
    [pc |-> "idle", upstream |-> <<>>, pending |-> NoByte,
     enqueued |-> <<>>, received |-> <<>>, failed |-> NoFailure]

\* start(controller) has called fetch and awaits it.
Started == [Idle EXCEPT !.pc = "fetch"]

\* TextEncoder.encode, one character.
EncodeChar(c) ==
    IF c = EAcute THEN <<LeadByte, ContByte>>
    ELSE IF c = Replacement THEN <<"0xEF", "0xBF", "0xBD">>
    ELSE <<c>>

\* encoder.encode(chunk)
Encode(text) == Concat([i \in 1..Len(text) |-> EncodeChar(text[i])])

\* The error event of the catch block, as text.
ErrorEvent(message) == Frame(Payload("E", message))

\* A final_answer whose text is the two-byte character.
FinalEAcute == Payload("F", <<LeadByte, ContByte>>)

\* The bodies the backend may answer with.
Upstream == { Frame(FinalX), Line(FinalEAcute) }

\* The errors of a rejected fetch and of a read on a broken connection.
UpstreamFetchError == <<"fetch failed">>
UpstreamReadError == <<"terminated">>

\* catch (error) { controller.enqueue(errorEvent) } finally
\* { controller.close() }
RouteCatch(message) ==
    route' = [route EXCEPT
                 !.pc = "closed",
                 !.enqueued = Append(@, Encode(ErrorEvent(message))),
                 !.failed = message]

\* await fetch(apiUrl) rejects.
StartFetchFails ==
    /\ route.pc = "fetch"
    /\ RouteCatch(UpstreamFetchError)

\* await fetch(apiUrl) resolves with a response that is not ok.
StartResponseNotOk ==
    /\ route.pc = "fetch"
    /\ RouteCatch(<<"Backend error: 500">>)

\* await fetch(apiUrl) resolves with an ok response that has no body.
StartNoBody ==
    /\ route.pc = "fetch"
    /\ RouteCatch(<<"No response body">>)

\* await fetch(apiUrl) resolves with an ok response and a body.
StartFetchResolves ==
    /\ route.pc = "fetch"
    /\ \E body \in Upstream :
          route' = [route EXCEPT !.pc = "read", !.upstream = body]

\* A relay that decodes every chunk by itself, without { stream: true }: a
\* character cut by the end of a chunk is replaced, not held.
RelayNoStream(value) ==
    LET head == Decode(value, NoByte)
        chunk == IF head.pending = NoByte THEN head.text
                 ELSE head.text \o <<Replacement>>
    IN  route' = [route EXCEPT
                     !.upstream = SubSeq(@, Len(value) + 1, Len(@)),
                     !.pending = NoByte,
                     !.enqueued = Append(@, Encode(chunk)),
                     !.received = Append(@, value)]

\* const chunk = decoder.decode(value, { stream: true });
\* controller.enqueue(encoder.encode(chunk));
Relay(value) ==
    LET chunk == Decode(value, route.pending) IN
    route' = [route EXCEPT
                 !.upstream = SubSeq(@, Len(value) + 1, Len(@)),
                 !.pending = chunk.pending,
                 !.enqueued = Append(@, Encode(chunk.text)),
                 !.received = Append(@, value)]

\* await reader.read() resolves with the next bytes of the body, as many
\* as the connection delivers at once.
StartReadResolves ==
    /\ route.pc = "read"
    /\ \E n \in 1..Len(route.upstream) :
          Relay(SubSeq(route.upstream, 1, n))

\* await reader.read() resolves with done: break, releaseLock, close.
StartReadEnds ==
    /\ route.pc = "read"
    /\ route.upstream = <<>>
    /\ route' = [route EXCEPT !.pc = "closed"]

\* await reader.read() rejects: the connection to the backend broke.
StartReadFails ==
    /\ route.pc = "read"
    /\ RouteCatch(UpstreamReadError)

-----------------------------------------------------------------------------
(* The calls of sendMessage.  reqs[r] is the activation of the call in slot *)
(* r: where it is suspended (pc), what its closure captured (sid), its     *)
(* locals (userMessage, assistantMessage, the decoder state pending,       *)
(* accumulatedContent acc), the rest of the response body, and the events  *)
(* it has handed to onStreamEvent (log).  wire is the bytes the call has   *)
(* read so far.  A slot is free until a call takes it and again once the   *)
(* call has returned.  Once the signal of a call is aborted only its catch *)
(* block is left to run, and only pc is kept.  A free slot tells how its   *)
(* last call returned (outcome): "done" (a done event without a commit),   *)
(* "committed", "eof", "failed", "aborted", with what that call had read   *)
(* and handed to its observer.                                             *)

NoMessage == NewMessage("none", <<>>, 0, 0)

\* An observer that never throws, as the one ChatInterface passes, and the
\* observers a caller may pass: each throws at the events of some types.
NeverThrows == {}
Observers == {NeverThrows, {"final_answer"}, {"error"}, {"done"}}

Returned(outcome) ==
    [pc |-> "free", sid |-> Null, userMessage |-> NoMessage,
     assistantMessage |-> NoMessage, body |-> <<>>, pending |-> NoByte,
     acc |-> <<>>, wire |-> <<>>, log |-> <<>>, seen |-> <<>>, writes |-> 0,
     onStreamEvent |-> NeverThrows, outcome |-> outcome]

Free == Returned("none")

Aborted == [Free EXCEPT !.pc = "aborted"]

Calls == 1..MaxInFlight

\* The calls that have issued their request and not yet returned.
InFlight == {r \in Calls : reqs[r].pc # "free"}

\* The messages of a call that has returned belong to no call.
Disown(msgs, r) ==
    [i \in 1..Len(msgs) |->
        IF msgs[i].turn = r THEN [msgs[i] EXCEPT !.turn = 0] ELSE msgs[i]]

Init ==
    /\ route = Idle
    /\ messages = <<>>
    /\ isLoading = FALSE
    /\ currentSessionId = Null
    /\ chatSessions = <<>>
    /\ abortControllerRef = 0
    /\ localStorage = Absent
    /\ reqs = [r \in Calls |-> Free]
    /\ now = 0

\* A sendMessage whose guard tests the text without trimming it.
sendMessageNoTrim(content) ==
    IF content = <<>> \/ isLoading
    THEN UNCHANGED vars
    ELSE /\ Calls \ InFlight # {}
         /\ Len(messages) < 2 * MaxTurns
         /\ \E t1 \in Ticks(now) : \E t2 \in Ticks(t1) :
              LET r == CHOOSE c \in Calls \ InFlight :
                           \A d \in Calls \ InFlight : c <= d
                  userMessage == NewMessage("user", content, t1, r)
                  assistantMessage == NewMessage("assistant", <<>>, t2, r)
              IN  /\ messages' = messages \o <<userMessage, assistantMessage>>
                  /\ reqs' = [reqs EXCEPT ![r] =
                         [Free EXCEPT
                             !.pc = "fetch",
                             !.sid = currentSessionId,
                             !.userMessage = userMessage,
                             !.assistantMessage = assistantMessage]]
                  /\ abortControllerRef' = r
                  /\ now' = t2
         /\ isLoading' = TRUE
         /\ UNCHANGED <<currentSessionId, chatSessions, localStorage>>

\* A sendMessage that adds the placeholder before the user's message.
sendMessagePlaceholderFirst(content) ==
    IF Trim(content) = <<>> \/ isLoading
    THEN UNCHANGED vars
    ELSE /\ Calls \ InFlight # {}
         /\ Len(messages) < 2 * MaxTurns
         /\ \E t1 \in Ticks(now) : \E t2 \in Ticks(t1) :
              LET r == CHOOSE c \in Calls \ InFlight :
                           \A d \in Calls \ InFlight : c <= d
                  assistantMessage == NewMessage("assistant", <<>>, t1, r)
                  userMessage == NewMessage("user", content, t2, r)
              IN  /\ messages' = messages \o <<assistantMessage, userMessage>>
                  /\ reqs' = [reqs EXCEPT ![r] =
                         [Free EXCEPT
                             !.pc = "fetch",
                             !.sid = currentSessionId,
                             !.userMessage = userMessage,
                             !.assistantMessage = assistantMessage]]
                  /\ abortControllerRef' = r
                  /\ now' = t2
         /\ isLoading' = TRUE
         /\ UNCHANGED <<currentSessionId, chatSessions, localStorage>>

\* sendMessage up to the first await: the guard, the two addMessage calls,
\* setIsLoading(true), the new AbortController, the fetch.
sendMessage(content) ==
    IF Trim(content) = <<>> \/ isLoading
    THEN UNCHANGED vars
    ELSE /\ Calls \ InFlight # {}
         /\ Len(messages) < 2 * MaxTurns
         /\ \E t1 \in Ticks(now) : \E t2 \in Ticks(t1) :
              LET r == CHOOSE c \in Calls \ InFlight :
                           \A d \in Calls \ InFlight : c <= d
                  userMessage == NewMessage("user", content, t1, r)
                  assistantMessage == NewMessage("assistant", <<>>, t2, r)
              IN  /\ messages' = messages \o <<userMessage, assistantMessage>>
                  /\ reqs' = [reqs EXCEPT ![r] =
                         [Free EXCEPT
                             !.pc = "fetch",
                             !.sid = currentSessionId,
                             !.userMessage = userMessage,
                             !.assistantMessage = assistantMessage]]
                  /\ abortControllerRef' = r
                  /\ now' = t2
         /\ isLoading' = TRUE
         /\ UNCHANGED <<currentSessionId, chatSessions, localStorage>>

\* A finally block that leaves the busy flag as it is.
FinallyLeavesBusy(r, outcome, rq) ==
    /\ isLoading' = isLoading
    /\ abortControllerRef' = 0
    /\ reqs' = [reqs EXCEPT ![r] =
                    [Returned(outcome) EXCEPT !.wire = rq.wire,
                                              !.log = rq.log,
                                              !.seen = rq.seen]]

\* The outer finally block, after which the call has returned.
Finally(r, outcome, rq) ==
    /\ isLoading' = FALSE
    /\ abortControllerRef' = 0
    /\ reqs' = [reqs EXCEPT ![r] =
                    [Returned(outcome) EXCEPT !.wire = rq.wire,
                                              !.log = rq.log,
                                              !.seen = rq.seen]]

\* A catch block that shows the message of every error, an AbortError
\* among them.
CatchShowsAbort(r, error) ==
    /\ messages' = Disown(updateLastMessage(messages,
                              ErrorText(error.message)), r)
    /\ Finally(r, IF error.name = "AbortError" THEN "aborted" ELSE "failed",
               reqs[r])
    /\ UNCHANGED <<currentSessionId, chatSessions, localStorage, now>>

\* The outer catch block and the finally block after it.
Catch(r, error) ==
    /\ IF error.name = "AbortError"
       THEN messages' = Disown(messages, r)
       ELSE messages' = Disown(updateLastMessage(messages,
                                   ErrorText(error.message)), r)
    /\ Finally(r, IF error.name = "AbortError" THEN "aborted" ELSE "failed",
               reqs[r])
    /\ UNCHANGED <<currentSessionId, chatSessions, localStorage, now>>

\* await fetch(..) resolves with an ok response that has a body.
FetchResolves(r) ==
    /\ reqs[r].pc = "fetch"
    /\ \E body \in Streams :
          reqs' = [reqs EXCEPT ![r].pc = "read", ![r].body = body]
    /\ UNCHANGED <<messages, isLoading, currentSessionId, chatSessions,
                   abortControllerRef, localStorage, now>>

\* The fetch fails: it rejects, or the response is not ok or has no body.
FetchFails(r) ==
    /\ reqs[r].pc = "fetch"
    /\ \E error \in FetchErrors : Catch(r, error)

\* await reader.read() resolves with the next k pieces of the body as one
\* chunk, and the loop body runs on it.
ReadResolves(r) ==
    /\ reqs[r].pc = "read"
    /\ \E k \in 1..Len(reqs[r].body) : \E t \in Ticks(now) :
         LET rq == reqs[r]
             value == Concat(SubSeq(rq.body, 1, k))
             decoded == Decode(value, rq.pending)
             L0 == [messages |-> messages,
                    store |-> [chatSessions |-> chatSessions,
                               localStorage |-> localStorage],
                    acc |-> rq.acc, log |-> rq.log, seen |-> rq.seen,
                    writes |-> rq.writes, returned |-> FALSE]
             L == ProcessChunk(L0, decoded.text, rq, t)
             saved == L.store # L0.store
         IN  /\ messages' = IF L.returned THEN Disown(L.messages, r)
                                           ELSE L.messages
             /\ chatSessions' = L.store.chatSessions
             /\ localStorage' = L.store.localStorage
             /\ now' = IF saved THEN t ELSE now
             /\ (~saved => t = now)
             /\ IF L.returned
                THEN Finally(r, IF saved THEN "committed" ELSE "done",
                             [rq EXCEPT !.wire = @ \o value,
                                        !.log = L.log,
                                        !.seen = L.seen])
                ELSE /\ reqs' = [reqs EXCEPT
                            ![r].body = SubSeq(rq.body, k + 1, Len(rq.body)),
                            ![r].pending = decoded.pending,
                            ![r].acc = L.acc,
                            ![r].wire = rq.wire \o value,
                            ![r].log = L.log,
                            ![r].seen = L.seen,
                            ![r].writes = L.writes]
                     /\ UNCHANGED <<isLoading, abortControllerRef>>
    /\ UNCHANGED currentSessionId

\* await reader.read() resolves with done: true when the body has ended.
ReadEnds(r) ==
    /\ reqs[r].pc = "read"
    /\ reqs[r].body = <<>>
    /\ messages' = Disown(messages, r)
    /\ Finally(r, "eof", reqs[r])
    /\ UNCHANGED <<currentSessionId, chatSessions, localStorage, now>>

\* await reader.read() rejects: the connection broke.
ReadFails(r) ==
    /\ reqs[r].pc = "read"
    /\ Catch(r, ReadError)

\* The pending fetch or read of a call whose signal was aborted rejects.
AbortRejects(r) ==
    /\ reqs[r].pc = "aborted"
    /\ Catch(r, AbortError)

\* A stopGeneration that aborts the token and keeps it installed.
stopGenerationKeepsToken ==
    /\ IF abortControllerRef # 0
       THEN /\ reqs' = [reqs EXCEPT ![abortControllerRef] =
                           IF @.pc = "free" THEN @ ELSE Aborted]
            /\ isLoading' = FALSE
            /\ UNCHANGED abortControllerRef
       ELSE UNCHANGED <<reqs, abortControllerRef, isLoading>>
    /\ UNCHANGED <<messages, currentSessionId, chatSessions, localStorage, now>>

stopGeneration ==
    /\ IF abortControllerRef # 0
       THEN /\ reqs' = [reqs EXCEPT ![abortControllerRef] =
                           IF @.pc = "free" THEN @ ELSE Aborted]
            /\ abortControllerRef' = 0
            /\ isLoading' = FALSE
       ELSE UNCHANGED <<reqs, abortControllerRef, isLoading>>
    /\ UNCHANGED <<messages, currentSessionId, chatSessions, localStorage, now>>

startNewChat ==
    /\ messages' = <<>>
    /\ currentSessionId' = Null
    /\ UNCHANGED <<isLoading, chatSessions, abortControllerRef, localStorage,
                   reqs, now>>

\* A loadSession that makes the id the current one whether or not the
\* store has a record of it.
loadSessionAnyId(sessionId) ==
    /\ messages' = IF SessionKey(sessionId) \in DOMAIN chatSessions
                   THEN chatSessions[SessionKey(sessionId)].messages
                   ELSE messages
    /\ currentSessionId' = sessionId
    /\ UNCHANGED <<isLoading, chatSessions, abortControllerRef, localStorage,
                   reqs, now>>

loadSession(sessionId) ==
    /\ IF SessionKey(sessionId) \in DOMAIN chatSessions
       THEN /\ messages' = chatSessions[SessionKey(sessionId)].messages
            /\ currentSessionId' = sessionId
       ELSE UNCHANGED <<messages, currentSessionId>>
    /\ UNCHANGED <<isLoading, chatSessions, abortControllerRef, localStorage,
                   reqs, now>>

\* A deleteSession that leaves the conversation as it is.
deleteSessionKeepsChat(sessionId) ==
    LET updated == [k \in DOMAIN chatSessions \ {SessionKey(sessionId)} |->
                       chatSessions[k]]
    IN  /\ chatSessions' = updated
        /\ localStorage' = Stringify(updated)
        /\ UNCHANGED <<messages, currentSessionId>>
        /\ UNCHANGED <<isLoading, abortControllerRef, reqs, now>>

\* A deleteSession that removes the record from the map in memory alone.
deleteSessionMemoryOnly(sessionId) ==
    LET updated == [k \in DOMAIN chatSessions \ {SessionKey(sessionId)} |->
                       chatSessions[k]]
    IN  /\ chatSessions' = updated
        /\ localStorage' = localStorage
        /\ IF sessionId = currentSessionId
           THEN /\ messages' = <<>>
                /\ currentSessionId' = Null
           ELSE UNCHANGED <<messages, currentSessionId>>
        /\ UNCHANGED <<isLoading, abortControllerRef, reqs, now>>

deleteSession(sessionId) ==
    LET updated == [k \in DOMAIN chatSessions \ {SessionKey(sessionId)} |->
                       chatSessions[k]]
    IN  /\ chatSessions' = updated
        /\ localStorage' = Stringify(updated)
        /\ IF sessionId = currentSessionId
           THEN /\ messages' = <<>>
                /\ currentSessionId' = Null
           ELSE UNCHANGED <<messages, currentSessionId>>
        /\ UNCHANGED <<isLoading, abortControllerRef, reqs, now>>

\* A clearAllSessions that leaves the persisted copy in place.
clearAllSessionsKeepsCopy ==
    /\ chatSessions' = <<>>
    /\ localStorage' = localStorage
    /\ messages' = <<>>
    /\ currentSessionId' = Null
    /\ UNCHANGED <<isLoading, abortControllerRef, reqs, now>>

clearAllSessions ==
    /\ chatSessions' = <<>>
    /\ localStorage' = Absent
    /\ messages' = <<>>
    /\ currentSessionId' = Null
    /\ UNCHANGED <<isLoading, abortControllerRef, reqs, now>>

Next ==
    \/ \E content \in Texts : sendMessage(content) /\ UNCHANGED route
    \/ \E r \in Calls : FetchResolves(r) /\ UNCHANGED route
    \/ \E r \in Calls : FetchFails(r) /\ UNCHANGED route
    \/ \E r \in Calls : ReadResolves(r) /\ UNCHANGED route
    \/ \E r \in Calls : ReadEnds(r) /\ UNCHANGED route
    \/ \E r \in Calls : ReadFails(r) /\ UNCHANGED route
    \/ \E r \in Calls : AbortRejects(r) /\ UNCHANGED route
    \/ stopGeneration /\ UNCHANGED route
    \/ startNewChat /\ UNCHANGED route
    \/ \E sessionId \in SessionIds : loadSession(sessionId) /\ UNCHANGED route
    \/ \E sessionId \in SessionIds : deleteSession(sessionId) /\ UNCHANGED route
    \/ clearAllSessions /\ UNCHANGED route

Spec == Init /\ [][Next]_vars

\* The continuation of the call in slot r after its pending await: the
\* fetch or the read settles and the code after it runs.
Settles(r) ==
    /\ \/ FetchFails(r)
       \/ FetchResolves(r)
       \/ ReadFails(r)
       \/ ReadEnds(r)
       \/ AbortRejects(r)
       \/ ReadResolves(r)
    /\ UNCHANGED route

\* The hook on a transport whose every fetch and read settles, and an event
\* loop that runs the continuation of every settled await.
LiveSpec == Spec /\ \A r \in Calls : WF_vars(Settles(r))

-----------------------------------------------------------------------------
(* The read loop alone: one call that has its response, whose body the     *)
(* transport may cut at every byte.                                        *)

Hi == <<"H", "i">>

\* A line of another field than data, the bytes after its name being a
\* well-formed payload, and a data line with white space for a payload.
OtherField == <<"e", "v", "e", "n", "t", ":">> \o FinalY \o <<LF>>
EmptyData == Marker \o <<" ", LF>>

\* The response bodies the read loop is run on.
DecodeStreams ==
    { Frame(Payload("F", <<LeadByte, ContByte>>)) \o Frame(Done),
      Line(StatusX) \o Line(FinalX) \o Line(FinalY) \o Line(Done),
      Line(FinalX),
      Line(FinalX) \o Line(FinalEmpty),
      Line(Truncated) \o Line(FinalX),
      Line(Done) \o Line(FinalX),
      Line(ReasoningX) \o Line(ToolCallX) \o Line(ErrorX) \o Line(FinalY)
          \o Line(Done),
      OtherField \o EmptyData \o <<LF>> \o Line(FinalX) }

\* A body cut into pieces of one byte.
Bytewise(bytes) == [i \in 1..Len(bytes) |-> <<bytes[i]>>]

DecodeInit ==
    /\ route = Idle
    /\ messages = <<NewMessage("user", Hi, 0, 1),
                    NewMessage("assistant", <<>>, 0, 1)>>
    /\ isLoading = TRUE
    /\ currentSessionId = Null
    /\ chatSessions = <<>>
    /\ abortControllerRef = 1
    /\ localStorage = Absent
    /\ now = 0
    /\ \E bytes \in DecodeStreams :
          reqs = [r \in Calls |->
                    IF r = 1
                    THEN [Free EXCEPT
                             !.pc = "read",
                             !.userMessage = NewMessage("user", Hi, 0, 1),
                             !.assistantMessage =
                                 NewMessage("assistant", <<>>, 0, 1),
                             !.body = Bytewise(bytes)]
                    ELSE Free]

DecodeNext ==
    \/ \E r \in Calls : ReadResolves(r) /\ UNCHANGED route
    \/ \E r \in Calls : ReadEnds(r) /\ UNCHANGED route
    \/ \E r \in Calls : ReadFails(r) /\ UNCHANGED route
    \/ \E r \in Calls : AbortRejects(r) /\ UNCHANGED route
    \/ stopGeneration /\ UNCHANGED route

DecodeSpec == DecodeInit /\ [][DecodeNext]_vars

-----------------------------------------------------------------------------
(* The session store: the hook over a session map that holds two sessions  *)
(* of one turn each, as saveToSession builds them, committed at clock 0;   *)
(* the clock now reads 1.  The user sends a text longer than a title and   *)
(* does not stop a call, so one call is in flight at a time.               *)

\* A text one character longer than a title.
Long == [i \in 1..(TitleLen + 1) |-> "x"]

\* The store after saveToSession has committed one turn, made at clock 0,
\* under the session id.
CommitOneTurn(store, id) ==
    saveToSession(store, id,
                  NewMessage("user", Hi, 0, 0),
                  [NewMessage("assistant", <<>>, 0, 0) EXCEPT
                      !.content = <<"y">>],
                  0)

StoredSessions ==
    CommitOneTurn(
        CommitOneTurn([chatSessions |-> <<>>, localStorage |-> Absent], "s1"),
        "s2")

StoreInit ==
    /\ route = Idle
    /\ messages = <<>>
    /\ isLoading = FALSE
    /\ currentSessionId = Null
    /\ chatSessions = StoredSessions.chatSessions
    /\ abortControllerRef = 0
    /\ localStorage = StoredSessions.localStorage
    /\ reqs = [r \in Calls |-> Free]
    /\ now = 1

StoreNext ==
    \/ sendMessage(Long) /\ UNCHANGED route
    \/ \E r \in Calls : FetchResolves(r) /\ UNCHANGED route
    \/ \E r \in Calls : FetchFails(r) /\ UNCHANGED route
    \/ \E r \in Calls : ReadResolves(r) /\ UNCHANGED route
    \/ \E r \in Calls : ReadEnds(r) /\ UNCHANGED route
    \/ \E r \in Calls : ReadFails(r) /\ UNCHANGED route
    \/ startNewChat /\ UNCHANGED route
    \/ \E sessionId \in SessionIds : loadSession(sessionId) /\ UNCHANGED route
    \/ \E sessionId \in SessionIds : deleteSession(sessionId) /\ UNCHANGED route
    \/ clearAllSessions /\ UNCHANGED route

StoreSpec == StoreInit /\ [][StoreNext]_vars

-----------------------------------------------------------------------------
(* What the properties speak of. *)

\* The positions in msgs of the assistant message of the call in slot r.
AssistantOf(msgs, r) ==
    {i \in 1..Len(msgs) : msgs[i].turn = r /\ msgs[i].role = "assistant"}

\* The final_answer events of a log that carry a non-empty text.
Answers(log) ==
    SelectSeq(log, LAMBDA e : e.type = "final_answer" /\ e.content # <<>>)

IsFinalAnswer(e) == e.type = "final_answer"

\* The call in slot r returns in this step.
Returns(r) == reqs[r].pc # "free" /\ reqs'[r].pc = "free"

\* The bytes are a well-formed framed stream: whole characters and whole
\* lines, each line blank or the marker followed by a well-formed payload.
WellFormedStream(bytes) ==
    LET decoded == Decode(bytes, NoByte)
        lines == Split(decoded.text)
    IN  /\ decoded.pending = NoByte
        /\ lines[Len(lines)] = <<>>
        /\ \A i \in 1..(Len(lines) - 1) :
              \/ lines[i] = <<>>
              \/ /\ StartsWith(lines[i], Marker)
                 /\ JsonParse(Slice(lines[i], MarkerLen)) # SyntaxError

\* The events the read loop hands to the observer when the bytes arrive as
\* one chunk.
OneChunkLog(bytes) ==
    ProcessChunk([messages |-> <<>>,
                  store |-> [chatSessions |-> <<>>, localStorage |-> Absent],
                  acc |-> <<>>, log |-> <<>>, seen |-> <<>>, writes |-> 0,
                  returned |-> FALSE],
                 Decode(bytes, NoByte).text, Free, 0).log

\* The bytes end where a line ends.
AtLineEnd(bytes) == bytes = <<>> \/ bytes[Len(bytes)] = LF

\* The bytes the call in slot r reads in this step.
ChunkRead(r) == SubSeq(reqs'[r].wire, Len(reqs[r].wire) + 1, Len(reqs'[r].wire))

\* The call in slot r reads a chunk of whole lines in this step, the chunks
\* before it having ended at line ends.
ReadsWholeLines(r) ==
    /\ reqs[r].pc = "read"
    /\ reqs'[r].pc \in {"read", "free"}
    /\ Len(reqs'[r].wire) > Len(reqs[r].wire)
    /\ AtLineEnd(reqs[r].wire)
    /\ AtLineEnd(ChunkRead(r))

\* The lines of a text of whole lines.
LinesOf(bytes) ==
    LET lines == Split(Decode(bytes, NoByte).text)
    IN  SubSeq(lines, 1, Len(lines) - 1)

\* The payload a marker-prefixed line carries.
PayloadOf(line) == Trim(Slice(line, MarkerLen))

\* A marker-prefixed line whose payload is not well-formed.
Malformed(line) ==
    /\ StartsWith(line, Marker)
    /\ PayloadOf(line) # <<>>
    /\ JsonParse(PayloadOf(line)) = SyntaxError

\* A marker-prefixed line whose payload is well-formed.
WellFormed(line) ==
    /\ StartsWith(line, Marker)
    /\ PayloadOf(line) # <<>>
    /\ JsonParse(PayloadOf(line)) # SyntaxError

\* The events of the well-formed lines, in line order, up to the first done
\* event.
EventsOf(lines) ==
    LET good == SelectSeq(lines, WellFormed)
        events == [i \in 1..Len(good) |-> JsonParse(PayloadOf(good[i]))]
        dones == {i \in 1..Len(events) : events[i].type = "done"}
    IN  IF dones = {} THEN events
        ELSE SubSeq(events, 1, CHOOSE i \in dones : \A j \in dones : i <= j)

\* The content of the open message after the events: the text of the last
\* non-empty final_answer or the rendering of the last error, whichever
\* came later, and the content before them if there is neither.
Projected(content, events) ==
    LET writes == {i \in 1..Len(events) :
                      \/ events[i].type = "final_answer"
                         /\ events[i].content # <<>>
                      \/ events[i].type = "error"}
        last == CHOOSE i \in writes : \A j \in writes : j <= i
    IN  IF writes = {} THEN content
        ELSE IF events[last].type = "error"
             THEN ErrorText(events[last].content)
             ELSE events[last].content

-----------------------------------------------------------------------------
(* The claims. *)

\* C1: however a well-formed stream was cut into chunks, the events the
\* read loop has decoded from it are those it decodes from the same bytes
\* delivered as one chunk.
C1_ChunkBoundaryInvariance ==
    \A r \in Calls :
        (reqs[r].wire # <<>> /\ WellFormedStream(reqs[r].wire))
            => reqs[r].log = OneChunkLog(reqs[r].wire)

\* C2: one marker-prefixed line, received whole in whatever chunks, has
\* been decoded to exactly one event.
C2_SplitLineOneEvent ==
    \A r \in Calls :
        reqs[r].wire = Line(FinalX) => Len(reqs[r].log) = 1

\* C3: when a call made without a session id, with no record in the store,
\* returns at a done event that followed a non-empty final_answer, the store
\* then holds a record whose messages are the user message with the sent
\* text and the assistant message with the final answer text, titled by the
\* first 50 characters of the sent text.
C3_TurnCommitted ==
    [][\A r \in Calls :
          ( /\ Returns(r)
            /\ reqs[r].sid = Null
            /\ chatSessions = <<>>
            /\ reqs'[r].log # <<>>
            /\ reqs'[r].log[Len(reqs'[r].log)].type = "done"
            /\ Answers(reqs'[r].log) # <<>> )
          => \E key \in DOMAIN chatSessions' :
                LET session == chatSessions'[key]
                    answers == Answers(reqs'[r].log)
                IN  /\ Len(session.messages) = 2
                    /\ session.messages[1].role = "user"
                    /\ session.messages[1].content = reqs[r].userMessage.content
                    /\ session.messages[2].role = "assistant"
                    /\ session.messages[2].content =
                           answers[Len(answers)].content
                    /\ session.title =
                           Substring0(reqs[r].userMessage.content, TitleLen)
      ]_vars

C5_CancellationSilent ==
    [][\A r \in Calls :
          reqs[r].pc = "aborted"
          => /\ \A key \in DOMAIN chatSessions' :
                   key \in DOMAIN chatSessions
                   /\ chatSessions'[key] = chatSessions[key]
             /\ \A i \in AssistantOf(messages, r) :
                   i <= Len(messages')
                   => messages'[i].content = messages[i].content
      ]_vars

\* C6: at most one call of sendMessage has passed its guard and not yet
\* returned.
C6_OneInFlight == Cardinality(InFlight) <= 1

\* C7: the return of one call leaves the token and the busy flag of another
\* call that is still streaming as they are.
C7_TokenPerRequest ==
    [][\A a \in Calls : \A b \in Calls \ {a} :
          (Returns(a) /\ reqs[b].pc \in {"fetch", "read"})
          => /\ abortControllerRef = b => abortControllerRef' = b
             /\ isLoading' = isLoading
      ]_vars

\* C8: when all the events a streaming call has decoded are final_answer
\* events, the content of its assistant message is the text of the last of
\* them.
C8_FinalAnswerReplaces ==
    \A r \in Calls :
        ( /\ reqs[r].pc = "read"
          /\ reqs[r].log # <<>>
          /\ \A k \in 1..Len(reqs[r].log) : IsFinalAnswer(reqs[r].log[k]) )
        => \A i \in AssistantOf(messages, r) :
              messages[i].content = reqs[r].log[Len(reqs[r].log)].content

\* C9: when a call whose stream delivered one error event and nothing else
\* returns at the end of the body, its assistant message reads "Error: "
\* and the text of the event, the store holds no record, the busy flag is
\* false and no token is installed.
C9_ErrorOnlyStream ==
    [][\A r \in Calls :
          ( /\ Returns(r)
            /\ reqs'[r].outcome = "eof"
            /\ Len(reqs[r].log) = 1
            /\ reqs[r].log[1].type = "error" )
          => /\ \A i \in AssistantOf(messages, r) :
                   /\ i <= Len(messages')
                   /\ messages'[i].content = ErrorText(reqs[r].log[1].content)
             /\ chatSessions' = <<>>
             /\ isLoading' = FALSE
             /\ abortControllerRef' = 0
      ]_vars

\* The renderings of the transport failures.
FailureTexts ==
    {ErrorText(error.message) : error \in FetchErrors \cup {ReadError}}

\* C10: when a call returns by a transport failure, the content of its
\* assistant message becomes the rendering of the failure, no other message
\* changes, the store does not change, and the busy flag is false.
C10_TransportFailure ==
    [][\A r \in Calls :
          (Returns(r) /\ reqs'[r].outcome = "failed")
          => /\ Len(messages') = Len(messages)
             /\ \A i \in 1..Len(messages) :
                   IF i \in AssistantOf(messages, r)
                   THEN messages'[i].content \in FailureTexts
                   ELSE messages'[i].content = messages[i].content
             /\ chatSessions' = chatSessions
             /\ localStorage' = localStorage
             /\ isLoading' = FALSE
      ]_vars

\* C11: when a call reads a chunk of whole lines of which one is a
\* marker-prefixed line with a malformed payload, the events it hands on are
\* exactly those of the well-formed lines of the chunk, in line order, its
\* message shows what they project, and the call does not fail; the same
\* holds for the chunks it reads afterwards.
C11_MalformedLineSkipped ==
    [][\A r \in Calls :
          ( /\ ReadsWholeLines(r)
            /\ \E i \in 1..Len(LinesOf(reqs'[r].wire)) :
                   Malformed(LinesOf(reqs'[r].wire)[i]) )
          => LET events == EventsOf(LinesOf(ChunkRead(r))) IN
             /\ reqs'[r].log = reqs[r].log \o events
             /\ reqs'[r].outcome # "failed"
             /\ \A i \in AssistantOf(messages, r) :
                   messages'[i].content = Projected(messages[i].content, events)
      ]_vars

\* C11, the case: a call has read a malformed line and after it a
\* well-formed final_answer line, and its message shows the answer.
C11_Witness ==
    \E r \in Calls :
        /\ reqs[r].pc = "read"
        /\ reqs[r].wire = Line(Truncated) \o Line(FinalX)
        /\ reqs[r].log = <<JsonParse(FinalX)>>
        /\ \A i \in AssistantOf(messages, r) : messages[i].content = <<"x">>

\* C12: when a call reads a chunk made of N marker-prefixed lines with
\* well-formed payloads and no blank line, with no done event before the
\* last line, it hands on exactly N events, the event of the i-th line being
\* the i-th of them.
C12_NoSeparatorNeeded ==
    [][\A r \in Calls :
          LET lines == LinesOf(ChunkRead(r))
              N == Len(lines)
          IN  ( /\ ReadsWholeLines(r)
                /\ \A i \in 1..N : WellFormed(lines[i])
                /\ \A i \in 1..(N - 1) :
                      JsonParse(PayloadOf(lines[i])).type # "done" )
              => /\ Len(reqs'[r].log) = Len(reqs[r].log) + N
                 /\ \A i \in 1..N :
                       reqs'[r].log[Len(reqs[r].log) + i] =
                           JsonParse(PayloadOf(lines[i]))
      ]_vars

\* C12, the case: a call has read four lines that no blank line separates
\* as one chunk and has handed on four events.
C12_Witness ==
    \E r \in Calls :
        /\ reqs[r].wire =
               Line(StatusX) \o Line(FinalX) \o Line(FinalY) \o Line(Done)
        /\ Len(reqs[r].log) = 4

\* The ways a call may have returned.
Outcomes == {"committed", "done", "eof", "aborted", "failed"}

Writes(e) ==
    \/ e.type = "final_answer" /\ e.content # <<>>
    \/ e.type = "error"

\* C14: when a call reads a chunk of whole lines, onStreamEvent is called
\* once with the event of each well-formed line, in line order, up to the
\* first done event, whatever the type of the event, and at each call the
\* writes of the events before it have been made and the write of the event
\* itself has not.
C14_ObserverFirst ==
    [][\A r \in Calls :
          ReadsWholeLines(r)
          => LET events == EventsOf(LinesOf(ChunkRead(r)))
                 old == Len(reqs[r].log)
             IN  /\ reqs'[r].log = reqs[r].log \o events
                 /\ Len(reqs'[r].seen) = Len(reqs'[r].log)
                 /\ \A i \in 1..Len(events) :
                       reqs'[r].seen[old + i] =
                           reqs[r].writes +
                           Cardinality({j \in 1..(i - 1) : Writes(events[j])})
      ]_vars

\* C14, the case: a call has handed on a reasoning_step, a tool_call, an
\* error and a final_answer read as one chunk; the error was handed on
\* before any write and the final_answer after one.
C14_Witness ==
    \E r \in Calls :
        /\ reqs[r].pc = "read"
        /\ reqs[r].log = <<JsonParse(ReasoningX), JsonParse(ToolCallX),
                           JsonParse(ErrorX), JsonParse(FinalY)>>
        /\ reqs[r].seen = <<0, 0, 0, 1>>
        /\ reqs[r].writes = 2

\* A done event is the last event of the log.
EndsAtDone(log) == log # <<>> /\ log[Len(log)].type = "done"

\* C15: a done event is the last event a call hands on: the lines after it
\* in its chunk are not decoded, and once a call has handed on a done event
\* it has returned, it reads nothing more, hands on nothing more and the
\* transcript does not change.
C15_StopsAtDone ==
    [][\A r \in Calls :
          /\ \A i \in 1..Len(reqs'[r].log) :
                reqs'[r].log[i].type = "done"
                => i = Len(reqs'[r].log) /\ reqs'[r].pc = "free"
          /\ EndsAtDone(reqs[r].log)
                => /\ reqs'[r].log = reqs[r].log
                   /\ reqs'[r].wire = reqs[r].wire
                   /\ messages' = messages
      ]_vars

\* C15, the case: a call has read a done line and a final_answer line after
\* it as one chunk and has handed on the done event alone; the message is
\* still empty.
C15_Witness ==
    \E r \in Calls :
        /\ reqs[r].pc = "free"
        /\ reqs[r].wire = Line(Done) \o Line(FinalX)
        /\ reqs[r].log = <<JsonParse(Done)>>
        /\ \A i \in 1..Len(messages) : messages[i].content \in {Hi, <<>>}

\* The call in slot r reads a chunk in this step.
ReadsChunk(r) ==
    /\ reqs[r].pc = "read"
    /\ Len(reqs'[r].wire) > Len(reqs[r].wire)

\* C16: a step in which a call reads a chunk and applies its events leaves
\* the number of messages as it is and changes the content of no message
\* other than the assistant message that call created; when that message is
\* no longer in the transcript, it changes nothing.
C16_OnlyOpenMessage ==
    [][\A r \in Calls :
          ReadsChunk(r)
          => /\ Len(messages') = Len(messages)
             /\ \A i \in 1..Len(messages) :
                   i \notin AssistantOf(messages, r)
                   => messages'[i].content = messages[i].content
      ]_vars

\* user, assistant, user, assistant, ...: whole turns only.
Alternates(msgs) ==
    /\ Len(msgs) % 2 = 0
    /\ \A i \in 1..Len(msgs) :
          msgs[i].role = IF i % 2 = 1 THEN "user" ELSE "assistant"

\* C17: in every state the messages of every stored session are whole
\* turns: a user message, an assistant message, a user message, ..., ending
\* with an assistant message; no state shows a record with half a turn.
C17_WholeTurnsStored ==
    \A key \in DOMAIN chatSessions :
        /\ chatSessions[key].messages # <<>>
        /\ Alternates(chatSessions[key].messages)

\* C17, the case: a commit has appended a second turn to a stored session.
C17_Witness ==
    \E key \in DOMAIN chatSessions :
        /\ Len(chatSessions[key].messages) = 4
        /\ chatSessions[key].messages[3].content = Long
        /\ chatSessions[key].messages[4].content # <<>>

\* The call in slot r returns by a commit in this step.
Commits(r) == Returns(r) /\ reqs'[r].outcome = "committed"

\* The two messages a commit of the call in slot r stores: the user message
\* and the assistant message with the text of the last final_answer.
TurnOf(r) ==
    LET answers == Answers(reqs'[r].log)
    IN  <<reqs[r].userMessage,
          [reqs[r].assistantMessage EXCEPT
              !.content = answers[Len(answers)].content]>>

\* C18: a commit under a session id that has no record stores a record
\* with that id, titled by the first 50 characters of the user text,
\* created now, holding the two messages of the turn; a commit under a
\* session id that has a record keeps the id, the title and the creation
\* time of the record and appends the two messages to its messages; both
\* set lastActivity to now.
C18_CommitFields ==
    [][\A r \in Calls :
          Commits(r)
          => LET key == SessionKey(reqs[r].sid)
                 new == chatSessions'[key]
                 text == reqs[r].userMessage.content
             IN  /\ key \in DOMAIN chatSessions'
                 /\ new.lastActivity = now'
                 /\ IF key \in DOMAIN chatSessions
                    THEN /\ new.id = chatSessions[key].id
                         /\ new.title = chatSessions[key].title
                         /\ new.createdAt = chatSessions[key].createdAt
                         /\ new.messages =
                                chatSessions[key].messages \o TurnOf(r)
                    ELSE /\ new.id = reqs[r].sid
                         /\ Len(new.title) <= TitleLen
                         /\ Len(new.title) <= Len(text)
                         /\ \A i \in 1..Len(new.title) : new.title[i] = text[i]
                         /\ Len(text) <= TitleLen => new.title = text
                         /\ Len(text) > TitleLen => Len(new.title) = TitleLen
                         /\ new.createdAt = now'
                         /\ new.messages = TurnOf(r)
      ]_vars

\* C18, the case: a commit has stored a new record, titled by 50 of the
\* 51 characters sent, beside a record of the earlier clock.
C18_Witness ==
    \E key \in DOMAIN chatSessions :
        /\ Len(chatSessions[key].title) = TitleLen
        /\ Len(chatSessions[key].messages) = 2
        /\ chatSessions[key].createdAt = 1
        /\ \E other \in DOMAIN chatSessions : chatSessions[other].createdAt = 0

\* The store and its persisted copy are empty.
Cleared == chatSessions = <<>> /\ ~localStorage.present

\* The messages of the sessions stored at the start.
OldMessages ==
    {StoredSessions.chatSessions[key].messages[i] :
        key \in DOMAIN StoredSessions.chatSessions, i \in 1..2}

\* C19: clearAllSessions leaves the store and its persisted copy empty, the
\* transcript empty and no session active; while the store is empty no step
\* (a loadSession of a stored id among them) makes a session active or puts
\* a message of a previously stored session into the transcript; and a
\* commit made on the empty store under a previously stored id stores a
\* record with the title, the creation time and the two messages of the new
\* turn alone.
C19_ClearThenFresh ==
    [][/\ clearAllSessions
          => Cleared' /\ messages' = <<>> /\ currentSessionId' = Null
       /\ Cleared
          => /\ \A i \in 1..Len(messages') : messages'[i] \notin OldMessages
             /\ currentSessionId' = Null
       /\ \A r \in Calls :
             (Cleared /\ Commits(r))
             => LET new == chatSessions'[SessionKey(reqs[r].sid)] IN
                /\ DOMAIN chatSessions' = {SessionKey(reqs[r].sid)}
                /\ new.title =
                       Substring0(reqs[r].userMessage.content, TitleLen)
                /\ new.createdAt = now'
                /\ new.messages = TurnOf(r)
      ]_vars

\* C19, the case: after a clearAllSessions a call that had captured the id
\* of a stored session has committed: the store holds that id alone, with
\* the new title, the new creation time and one turn.
C19_Witness ==
    /\ localStorage = Stringify(chatSessions)
    /\ DOMAIN chatSessions = {SessionKey("s1")}
    /\ LET session == chatSessions[SessionKey("s1")] IN
          /\ session.title = Substring0(Long, TitleLen)
          /\ session.createdAt = 1
          /\ Len(session.messages) = 2
    /\ currentSessionId = Null

\* C20: deleteSession removes the record of the session id it is given and
\* leaves every other record as it is; if that id is the active one, the
\* transcript becomes empty and no session is active; if not, the
\* transcript and the active session id stay as they are.
C20_DeleteFrame ==
    [][\A sessionId \in SessionIds :
          deleteSession(sessionId)
          => /\ DOMAIN chatSessions' =
                    DOMAIN chatSessions \ {SessionKey(sessionId)}
             /\ \A key \in DOMAIN chatSessions' :
                    chatSessions'[key] = chatSessions[key]
             /\ IF sessionId = currentSessionId
                THEN messages' = <<>> /\ currentSessionId' = Null
                ELSE messages' = messages
                     /\ currentSessionId' = currentSessionId
      ]_vars

\* C20, the case: the session s1 has been deleted while s2 is the active
\* session: the record, the transcript and the active id of s2 are in place.
C20_Witness ==
    /\ DOMAIN chatSessions = {SessionKey("s2")}
    /\ chatSessions[SessionKey("s2")] =
           StoredSessions.chatSessions[SessionKey("s2")]
    /\ currentSessionId = "s2"
    /\ messages = chatSessions[SessionKey("s2")].messages

\* C21: stopGeneration changes nothing when no call is in flight and
\* nothing when no token is installed, and it leaves no token installed and
\* the busy flag false: a second stopGeneration after it changes nothing.
C21_StopIdempotent ==
    [][stopGeneration
       => /\ InFlight = {} => UNCHANGED vars
          /\ abortControllerRef = 0 => UNCHANGED vars
          /\ abortControllerRef' = 0
          /\ ~isLoading'
      ]_vars

\* C21, the case: a call has been stopped, no token is installed and the
\* busy flag is false.
C21_Witness ==
    \E r \in Calls :
        /\ reqs[r].pc = "aborted"
        /\ abortControllerRef = 0
        /\ ~isLoading

\* A text of white space alone, the empty text included.
Blank(content) == \A i \in 1..Len(content) : IsSpace(content[i])

\* C22: a sendMessage with an empty text or a text of white space changes
\* nothing: no message, no token, no call, and the busy flag, the transcript
\* and the store as they were.
C22_BlankSendNoOp ==
    [][\A content \in Texts :
          (Blank(content) /\ sendMessage(content)) => UNCHANGED vars
      ]_vars

\* C22, the case: the hook is idle with a transcript and a free slot, so
\* that the text alone decides whether a send is accepted.
C22_Witness ==
    /\ ~isLoading
    /\ InFlight = {}
    /\ Len(messages) = 2
    /\ \E content \in Texts : content # <<>> /\ Blank(content)

\* A sendMessage step that passes the guard: the text is not blank and the
\* hook is not busy.
Accepted(content) == ~Blank(content) /\ ~isLoading /\ sendMessage(content)

\* C23: an accepted sendMessage appends the user's message with the text
\* and then an assistant message with empty content, leaves the earlier
\* messages as they were, sets the busy flag and installs a token that no
\* call in flight holds; the new call has read nothing yet and waits for
\* its fetch.
C23_AcceptedSend ==
    [][\A content \in Texts :
          Accepted(content) =>
              /\ Len(messages') = Len(messages) + 2
              /\ SubSeq(messages', 1, Len(messages)) = messages
              /\ messages'[Len(messages) + 1].role = "user"
              /\ messages'[Len(messages) + 1].content = content
              /\ messages'[Len(messages) + 2].role = "assistant"
              /\ messages'[Len(messages) + 2].content = <<>>
              /\ isLoading'
              /\ abortControllerRef' \in Calls \ InFlight
              /\ reqs'[abortControllerRef'].pc = "fetch"
              /\ reqs'[abortControllerRef'].wire = <<>>
              /\ \A r \in InFlight : reqs'[r] = reqs[r]
      ]_vars

\* C23, the case: a second send has been accepted while the call of the
\* first, stopped, is still in flight, and the first turn's two messages
\* stand before the second turn's.
C23_Witness ==
    /\ Len(messages) = 4
    /\ messages[3].role = "user"
    /\ messages[3].content = Hi
    /\ messages[4].content = <<>>
    /\ isLoading
    /\ \E r \in Calls :
           /\ reqs[r].pc = "aborted"
           /\ abortControllerRef \in Calls \ {r}
           /\ reqs[abortControllerRef].pc = "fetch"

-----------------------------------------------------------------------------
(* The proxy serving one request, the hook idle. *)

RouteInit ==
    /\ messages = <<>>
    /\ isLoading = FALSE
    /\ currentSessionId = Null
    /\ chatSessions = <<>>
    /\ abortControllerRef = 0
    /\ localStorage = Absent
    /\ reqs = [r \in Calls |-> Free]
    /\ now = 0
    /\ route = Started

RouteNext ==
    \/ StartFetchFails /\ UNCHANGED hook
    \/ StartResponseNotOk /\ UNCHANGED hook
    \/ StartNoBody /\ UNCHANGED hook
    \/ StartFetchResolves /\ UNCHANGED hook
    \/ StartReadResolves /\ UNCHANGED hook
    \/ StartReadEnds /\ UNCHANGED hook
    \/ StartReadFails /\ UNCHANGED hook

RouteSpec == RouteInit /\ [][RouteNext]_vars

\* The chunks the proxy has relayed: the enqueued ones, less the error
\* event once an error has reached the catch block.
Relayed ==
    IF route.failed = NoFailure THEN route.enqueued
    ELSE SubSeq(route.enqueued, 1, Len(route.enqueued) - 1)

\* C24: once the request to the backend has failed, the proxy has enqueued
\* the error event once, as its last chunk, and has closed its output, and
\* a client that reads the output decodes the error event from it, as the
\* last event, with the message of the failure.
C24_ProxyReportsFailure ==
    route.failed # NoFailure =>
        /\ route.pc = "closed"
        /\ route.enqueued[Len(route.enqueued)]
               = Encode(ErrorEvent(route.failed))
        /\ LET log == OneChunkLog(Concat(route.enqueued)) IN
           /\ log # <<>>
           /\ log[Len(log)] = [type |-> "error", content |-> route.failed]

\* What the decoder holds after the chunks before the i-th one.
HeldBefore(i) ==
    Decode(Concat(SubSeq(route.received, 1, i - 1)), NoByte).pending

\* C25: the proxy has enqueued one chunk for every chunk read from the
\* backend, in the same order, each being the text of its chunk; the
\* enqueued bytes are the bytes read, less a character that the last chunk
\* left incomplete, and nothing follows them but the error event of a
\* failure.
C25_RelayOrder ==
    LET got == Concat(route.received)
        held == IF Decode(got, NoByte).pending = NoByte THEN <<>>
                ELSE <<LeadByte>>
    IN  /\ Len(Relayed) = Len(route.received)
        /\ \A i \in 1..Len(Relayed) :
              Relayed[i]
                  = Encode(Decode(route.received[i], HeldBefore(i)).text)
        /\ Decode(Concat(Relayed), NoByte).text = Decode(got, NoByte).text
        /\ Concat(Relayed) \o held = got
        /\ Len(route.enqueued) - Len(Relayed)
               = IF route.failed = NoFailure THEN 0 ELSE 1

\* C25, the case: the backend's body arrived in chunks of which one ended
\* inside a character, and the connection broke after a later chunk.
C25_Witness ==
    /\ route.pc = "closed"
    /\ route.failed = UpstreamReadError
    /\ Len(route.received) >= 3
    /\ \E i \in 1..(Len(route.received) - 1) :
           route.received[i][Len(route.received[i])] = LeadByte

\* A line the read loop passes over: a blank line, a line that does not
\* start with the marker, a marker line with an empty payload.
Ignored(line) ==
    \/ Trim(line) = <<>>
    \/ ~StartsWith(line, Marker)
    \/ PayloadOf(line) = <<>>

Kept(line) == ~Ignored(line)

\* C26: when a call reads a chunk of whole lines of which some are blank,
\* do not start with the marker or carry an empty payload, it hands on the
\* events of the other lines alone, in line order, its message shows what
\* they project and the call does not fail; if the chunk holds no other
\* line, the call hands on nothing, the transcript and the store stay as
\* they were and the call goes on reading.
C26_IgnoredLines ==
    [][\A r \in Calls :
          ( /\ ReadsWholeLines(r)
            /\ \E i \in 1..Len(LinesOf(ChunkRead(r))) :
                   Ignored(LinesOf(ChunkRead(r))[i]) )
          => LET kept == SelectSeq(LinesOf(ChunkRead(r)), Kept)
                 events == EventsOf(kept)
             IN  /\ reqs'[r].log = reqs[r].log \o events
                 /\ reqs'[r].outcome # "failed"
                 /\ \A i \in AssistantOf(messages, r) :
                       messages'[i].content
                           = Projected(messages[i].content, events)
                 /\ kept = <<>> =>
                       /\ messages' = messages
                       /\ chatSessions' = chatSessions
                       /\ localStorage' = localStorage
                       /\ reqs'[r].pc = "read"
                       /\ reqs'[r].seen = reqs[r].seen
      ]_vars

\* C26, the case: a call has read a line of another field, a data line
\* with an empty payload and a blank line, its message still empty, and a
\* final_answer line after them, and has handed on the final_answer alone.
C26_Witness ==
    \E r \in Calls :
        /\ reqs[r].pc = "read"
        /\ reqs[r].wire = OtherField \o EmptyData \o <<LF>> \o Line(FinalX)
        /\ reqs[r].log = <<JsonParse(FinalX)>>
        /\ \A i \in AssistantOf(messages, r) : messages[i].content = <<"x">>

\* An event that has no case in the switch.
Silent(event) == event.type \in {"status", "reasoning_step", "tool_call"}

\* C27: when the events of a chunk of whole lines are status,
\* reasoning_step and tool_call events alone, the call hands them on, in
\* order, and the transcript, the store, the accumulated answer and the
\* call's position stay as they were.
C27_SilentEvents ==
    [][\A r \in Calls :
          LET events == EventsOf(LinesOf(ChunkRead(r))) IN
          ( /\ ReadsWholeLines(r)
            /\ events # <<>>
            /\ \A i \in 1..Len(events) : Silent(events[i]) )
          => /\ messages' = messages
             /\ chatSessions' = chatSessions
             /\ localStorage' = localStorage
             /\ reqs'[r].log = reqs[r].log \o events
             /\ reqs'[r].acc = reqs[r].acc
             /\ reqs'[r].writes = reqs[r].writes
             /\ reqs'[r].pc = "read"
      ]_vars

\* C27, the case: a call has handed on a status event, or a reasoning_step
\* and a tool_call, and nothing else, and its message is still empty.
C27_Witness ==
    \E r \in Calls :
        /\ reqs[r].pc = "read"
        /\ reqs[r].log \in {<<JsonParse(StatusX)>>,
                            <<JsonParse(ReasoningX), JsonParse(ToolCallX)>>}
        /\ reqs[r].writes = 0
        /\ \A i \in AssistantOf(messages, r) : messages[i].content = <<>>

\* The log holds an error event.
HasError(log) == \E i \in 1..Len(log) : log[i].type = "error"

\* C28: an error event does not end the stream.  When a call that has
\* handed on an error event, before this chunk or in it, reads a chunk of
\* whole lines, it hands on every event of the chunk, in line order, up to
\* the first done event, its message shows what they project (the text of a
\* later final_answer in place of the error text), the call does not fail,
\* and it returns in this step exactly if the chunk holds a done event.
C28_ErrorNotFatal ==
    [][\A r \in Calls :
          LET events == EventsOf(LinesOf(ChunkRead(r))) IN
          ( /\ ReadsWholeLines(r)
            /\ HasError(reqs[r].log \o events) )
          => /\ reqs'[r].log = reqs[r].log \o events
             /\ reqs'[r].outcome # "failed"
             /\ \A i \in AssistantOf(messages, r) :
                   messages'[i].content
                       = Projected(messages[i].content, events)
             /\ IF EndsAtDone(events)
                THEN reqs'[r].pc = "free"
                     /\ reqs'[r].outcome \in {"done", "committed"}
                ELSE reqs'[r].pc = "read"
      ]_vars

\* C28, the case: a call has handed on an error event, then a final_answer
\* and a done event read in a later chunk, and has returned at the done
\* event, its message showing the answer.
C28_Witness ==
    \E r \in Calls :
        /\ reqs[r].pc = "free"
        /\ reqs[r].outcome = "done"
        /\ reqs[r].log = <<JsonParse(ReasoningX), JsonParse(ToolCallX),
                           JsonParse(ErrorX), JsonParse(FinalY),
                           JsonParse(Done)>>
        /\ reqs[r].seen = <<0, 0, 0, 1, 2>>
        /\ \E i \in 1..Len(messages) : messages[i].content = <<"y">>

\* The texts of the final_answer events the backend sends.
AnswerTexts == {JsonParse(FinalX).content, JsonParse(FinalY).content}

\* The assistant message the commit of this step has stored for the call
\* in slot r.
StoredBy(r) ==
    LET stored == chatSessions'[SessionKey(reqs[r].sid)].messages
    IN  stored[Len(stored)]

\* C29: in every state every assistant message of every stored session has
\* for content the non-empty text of a final_answer event, and the one a
\* commit stores has the text of a final_answer event that the committing
\* call has handed on; it is never the empty placeholder and never the
\* rendering of an error.
C29_StoredAnswers ==
    /\ [](\A key \in DOMAIN chatSessions :
            \A i \in 1..Len(chatSessions[key].messages) :
               LET m == chatSessions[key].messages[i] IN
               m.role = "assistant"
               => m.content # <<>> /\ m.content \in AnswerTexts)
    /\ [][\A r \in Calls :
             Commits(r)
             => /\ StoredBy(r).role = "assistant"
                /\ StoredBy(r).content # <<>>
                /\ \E i \in 1..Len(reqs'[r].log) :
                       /\ reqs'[r].log[i].type = "final_answer"
                       /\ reqs'[r].log[i].content = StoredBy(r).content
         ]_vars

\* C29, the case: a call that handed on a final_answer, an error and a done
\* event has committed, and the session it committed to holds the answer.
C29_Witness ==
    \E r \in Calls :
        /\ reqs[r].outcome = "committed"
        /\ reqs[r].log = <<JsonParse(FinalX), JsonParse(ErrorX),
                           JsonParse(Done)>>
        /\ \E key \in DOMAIN chatSessions :
               /\ Len(chatSessions[key].messages) = 4
               /\ chatSessions[key].messages[4].content = <<"x">>

C31_SessionIdOnlyByLoad ==
    [][/\ (currentSessionId' # currentSessionId /\ currentSessionId' # Null)
             => /\ SessionKey(currentSessionId') \in DOMAIN chatSessions
                /\ loadSession(currentSessionId')
       /\ \A sessionId \in SessionIds :
             ( /\ loadSession(sessionId)
               /\ SessionKey(sessionId) \notin DOMAIN chatSessions )
             => UNCHANGED <<messages, currentSessionId>>
       /\ \A r \in Calls :
             Returns(r) => currentSessionId' = currentSessionId
      ]_vars

\* C31, the case: a turn sent without a session id has ended at its done
\* event with an answer accumulated, the current session id is still null,
\* and the store lacks the record of an id a caller may load.
C31_Witness ==
    /\ currentSessionId = Null
    /\ \E sessionId \in SessionIds :
           SessionKey(sessionId) \notin DOMAIN chatSessions
    /\ \E r \in Calls :
           /\ reqs[r].pc = "free"
           /\ reqs[r].sid = Null
           /\ reqs[r].outcome = "done"
           /\ Answers(reqs[r].log) # <<>>

-----------------------------------------------------------------------------
(* The hook with a clock that may advance between two reads: it starts    *)
(* ClockRoom ticks before the last value the model follows.               *)

ClockRoom == 2

ClockInit ==
    /\ route = Idle
    /\ messages = <<>>
    /\ isLoading = FALSE
    /\ currentSessionId = Null
    /\ chatSessions = <<>>
    /\ abortControllerRef = 0
    /\ localStorage = Absent
    /\ reqs = [r \in Calls |-> Free]
    /\ now = MaxClock - ClockRoom

ClockNext ==
    \/ sendMessage(Hi) /\ UNCHANGED route
    \/ \E r \in Calls : FetchResolves(r) /\ UNCHANGED route
    \/ \E r \in Calls : FetchFails(r) /\ UNCHANGED route
    \/ \E r \in Calls : ReadResolves(r) /\ UNCHANGED route
    \/ \E r \in Calls : ReadEnds(r) /\ UNCHANGED route
    \/ \E r \in Calls : ReadFails(r) /\ UNCHANGED route
    \/ startNewChat /\ UNCHANGED route

ClockSpec == ClockInit /\ [][ClockNext]_vars

\* C32: no two messages of the transcript have the same id; the user
\* message and the placeholder of one send have different ids.
C32_UniqueIds ==
    \A i, j \in 1..Len(messages) :
        messages[i].id = messages[j].id => i = j

\* The value persisted under the key is the session map in memory, no
\* value counting as the empty map.
Mirrors ==
    IF localStorage.present THEN localStorage.value = chatSessions
    ELSE chatSessions = <<>>

\* C33: in every state, and so after every commit, deleteSession and
\* clearAllSessions, the persisted value is the session map in memory; and
\* a step that changes the persisted value is a commit, a deleteSession or
\* a clearAllSessions.
C33_PersistenceMirrors ==
    /\ []Mirrors
    /\ [][localStorage' # localStorage
             => \/ \E r \in Calls : Commits(r)
                \/ \E sessionId \in SessionIds : deleteSession(sessionId)
                \/ clearAllSessions
         ]_vars

\* C33, the case: a commit has added a turn to one session and a
\* deleteSession has removed the other, and the persisted value shows both.
C33_Witness ==
    /\ localStorage.present
    /\ localStorage.value = chatSessions
    /\ Cardinality(DOMAIN chatSessions) = 1
    /\ \E key \in DOMAIN chatSessions : Len(chatSessions[key].messages) = 4

\* The transcript as the hook returns it.
Shown(msgs) ==
    [i \in 1..Len(msgs) |->
        [id |-> msgs[i].id, role |-> msgs[i].role,
         content |-> msgs[i].content, timestamp |-> msgs[i].timestamp]]

\* C34: stopGeneration leaves the transcript as it is, and so does the
\* return of the call it aborted: the messages are the same, in the same
\* order, each with the content it had, the aborted turn's user message
\* and assistant message among them.
C34_StopKeepsTranscript ==
    [][/\ stopGeneration => Shown(messages') = Shown(messages)
       /\ \A r \in Calls :
             AbortRejects(r) => Shown(messages') = Shown(messages)
      ]_vars

\* C34, the case: a call was stopped after its final_answer had been
\* projected and has returned: the transcript holds the user message and
\* the assistant message with the answer.
C34_Witness ==
    /\ Len(messages) = 2
    /\ messages[1].content = Hi
    /\ messages[2].content = <<"x">>
    /\ \E r \in Calls : reqs[r].pc = "free" /\ reqs[r].outcome = "aborted"

-----------------------------------------------------------------------------
(* The read loop of one call made in a loaded session with an observer    *)
(* that may throw.                                                        *)

ObserverInit ==
    /\ route = Idle
    /\ isLoading = TRUE
    /\ chatSessions = StoredSessions.chatSessions
    /\ abortControllerRef = 1
    /\ localStorage = StoredSessions.localStorage
    /\ now = 1
    /\ \E sessionId \in SessionIds :
          /\ currentSessionId = sessionId
          /\ messages =
                 StoredSessions.chatSessions[SessionKey(sessionId)].messages
                     \o <<NewMessage("user", Hi, 1, 1),
                          NewMessage("assistant", <<>>, 1, 1)>>
          /\ \E body \in Streams : \E observer \in Observers :
                reqs = [r \in Calls |->
                          IF r = 1
                          THEN [Free EXCEPT
                                   !.pc = "read",
                                   !.sid = sessionId,
                                   !.userMessage =
                                       NewMessage("user", Hi, 1, 1),
                                   !.assistantMessage =
                                       NewMessage("assistant", <<>>, 1, 1),
                                   !.onStreamEvent = observer,
                                   !.body = body]
                          ELSE Free]

ObserverNext ==
    \/ \E r \in Calls : ReadResolves(r) /\ UNCHANGED route
    \/ \E r \in Calls : ReadEnds(r) /\ UNCHANGED route
    \/ \E r \in Calls : ReadFails(r) /\ UNCHANGED route

ObserverSpec == ObserverInit /\ [][ObserverNext]_vars

\* C35: when a call whose observer throws reads a chunk of whole lines, it
\* hands on the events of the chunk, in line order, up to the first done
\* event, its message shows what they project, and at a done event it
\* returns, having committed if it has an answer accumulated: what an
\* observer that never throws leaves.
C35_ObserverFailureHarmless ==
    [][\A r \in Calls :
          LET events == EventsOf(LinesOf(ChunkRead(r))) IN
          ( /\ ReadsWholeLines(r)
            /\ reqs[r].onStreamEvent # NeverThrows )
          => /\ reqs'[r].log = reqs[r].log \o events
             /\ \A i \in AssistantOf(messages, r) :
                   messages'[i].content
                       = Projected(messages[i].content, events)
             /\ EndsAtDone(events)
                   => /\ reqs'[r].pc = "free"
                      /\ Answers(reqs'[r].log) # <<>>
                            => reqs'[r].outcome = "committed"
      ]_vars

====
